---------------------------- MODULE Spec2Model ----------------------------
(***************************************************************************)
(* Model of pavex_static_files: src/src/static_server.rs (StaticServer,    *)
(* from_config, resolve, read_file, normalize_mount_path), with the        *)
(* filesystem the resolver probes modelled as a tree of directories,       *)
(* regular files and symbolic links.                                       *)
(*                                                                         *)
(* A Rust &str / PathBuf is a sequence of one-character strings, so that   *)
(* prefix tests, trimming and joining are computed character by character  *)
(* as the code computes them.                                              *)
(***************************************************************************)
EXTENDS Naturals, Sequences, FiniteSets, TLC

(***************************************************************************)
(* Bounds of the model.                                                    *)
(***************************************************************************)
\* longest mount_path string given to from_config in SpecNormalize
MaxMountLen == 4
\* most path segments after the head of a request path
MaxSegs == 2
\* number of callers sharing one StaticServer in SpecConcurrent
NumCallers == 2
\* symbolic links followed by one path resolution before it fails (ELOOP)
MaxSymlinkDepth == 3

(***************************************************************************)
(* &str helpers (std), as used by the code.                                *)
(***************************************************************************)
\* str::starts_with(&str)
StrStartsWith(s, p) ==
    /\ Len(p) <= Len(s)
    /\ SubSeq(s, 1, Len(p)) = p

\* str::strip_prefix(..).unwrap_or("")
StripPrefixOrEmpty(s, p) ==
    IF StrStartsWith(s, p) THEN SubSeq(s, Len(p) + 1, Len(s)) ELSE <<>>

RECURSIVE TrimStartMatches(_, _)
\* str::trim_start_matches(char): every leading occurrence is removed
TrimStartMatches(s, ch) ==
    IF s # <<>> /\ Head(s) = ch THEN TrimStartMatches(Tail(s), ch) ELSE s

RECURSIVE TrimEndMatches(_, _)
\* str::trim_end_matches(char): every trailing occurrence is removed
TrimEndMatches(s, ch) ==
    IF s # <<>> /\ s[Len(s)] = ch
    THEN TrimEndMatches(SubSeq(s, 1, Len(s) - 1), ch)
    ELSE s

\* a buggy normalisation that removes at most one trailing slash
normalize_mount_path_OneTrailing(path) ==
    IF path = <<"/">> THEN <<"/">>
    ELSE LET trimmed == IF path # <<>> /\ path[Len(path)] = "/"
                        THEN SubSeq(path, 1, Len(path) - 1) ELSE path
         IN  IF trimmed # <<>> /\ Head(trimmed) = "/"
             THEN trimmed
             ELSE <<"/">> \o trimmed

\* fn normalize_mount_path(path: &str) -> String
normalize_mount_path(path) ==
    IF path = <<"/">> THEN <<"/">>
    ELSE LET trimmed == TrimEndMatches(path, "/")
         IN  IF trimmed # <<>> /\ Head(trimmed) = "/"
             THEN trimmed
             ELSE <<"/">> \o trimmed

(***************************************************************************)
(* Paths (std::path) on a Unix target.  A path is a string; its components *)
(* are the non-empty pieces between '/' characters.                        *)
(***************************************************************************)
\* the literal "index.html" of resolve
IndexHtml == <<"i", "n", "d", "e", "x", ".", "h", "t", "m", "l">>

RECURSIVE SplitFrom(_, _, _, _)
\* scan s from position i; cur is the component being read, acc those read
SplitFrom(s, i, cur, acc) ==
    IF i > Len(s)
    THEN IF cur = <<>> THEN acc ELSE Append(acc, cur)
    ELSE IF s[i] = "/"
         THEN SplitFrom(s, i + 1, <<>>, IF cur = <<>> THEN acc ELSE Append(acc, cur))
         ELSE SplitFrom(s, i + 1, Append(cur, s[i]), acc)

\* Path::components without the root: repeated separators collapse
Components(p) == SplitFrom(p, 1, <<>>, <<>>)

\* Path::is_absolute
IsAbsolute(p) == p # <<>> /\ Head(p) = "/"

\* the path ends in a separator, so it must name a directory
HasTrailingSlash(p) == p # <<>> /\ p[Len(p)] = "/"

RECURSIVE PathString(_)
\* the absolute path string of a sequence of components
PathString(comps) ==
    IF comps = <<>> THEN <<"/">>
    ELSE IF Len(comps) = 1 THEN <<"/">> \o comps[1]
    ELSE PathString(SubSeq(comps, 1, Len(comps) - 1)) \o <<"/">> \o comps[Len(comps)]

\* Path::join (PathBuf::push): an absolute argument replaces the base,
\* otherwise it is appended after exactly one separator
PathJoin(base, rel) ==
    IF IsAbsolute(rel) THEN rel
    ELSE IF base = <<>> \/ HasTrailingSlash(base) THEN base \o rel
    ELSE base \o <<"/">> \o rel

\* Path::starts_with: whole components of base are a prefix of those of p
PathStartsWith(p, base) ==
    LET pc == Components(p)
        bc == Components(base)
    IN  /\ IsAbsolute(p) = IsAbsolute(base)
        /\ Len(bc) <= Len(pc)
        /\ SubSeq(pc, 1, Len(bc)) = bc

(***************************************************************************)
(* The filesystem: a function from the component sequence of a real        *)
(* (symlink-free) absolute location to the node stored there.              *)
(***************************************************************************)
Dir == [kind |-> "dir"]
File(content, readable) == [kind |-> "file", content |-> content, readable |-> readable]
Symlink(target) == [kind |-> "symlink", target |-> target]

\* a failed / successful path resolution
Failed == [ok |-> FALSE]
Resolved(comps) == [ok |-> TRUE, comps |-> comps]

\* the current directory of the process, for relative paths
Cwd == <<>>

RECURSIVE Walk(_, _, _, _)
\* Path resolution as the OS does it: at is a real directory, rest the
\* components still to follow, depth the symbolic links still allowed.
Walk(f, at, rest, depth) ==
    IF rest = <<>> THEN Resolved(at)
    ELSE LET c == Head(rest)
             next == Append(at, c)
         IN  IF c = <<".">> THEN Walk(f, at, Tail(rest), depth)
             ELSE IF c = <<".", ".">>
                  THEN Walk(f, IF at = <<>> THEN at ELSE SubSeq(at, 1, Len(at) - 1),
                            Tail(rest), depth)
             ELSE IF next \notin DOMAIN f THEN Failed
             ELSE IF f[next].kind = "dir" THEN Walk(f, next, Tail(rest), depth)
             ELSE IF f[next].kind = "file"
                  THEN IF Tail(rest) = <<>> THEN Resolved(next) ELSE Failed
             ELSE IF depth = 0 THEN Failed
             ELSE Walk(f, IF IsAbsolute(f[next].target) THEN <<>> ELSE at,
                       Components(f[next].target) \o Tail(rest), depth - 1)

\* where a path leads, following every symbolic link; a trailing separator
\* demands a directory
Lookup(f, p) ==
    IF p = <<>> THEN Failed
    ELSE LET r == Walk(f, IF IsAbsolute(p) THEN <<>> ELSE Cwd, Components(p),
                       MaxSymlinkDepth)
         IN  IF r.ok /\ HasTrailingSlash(p) /\ f[r.comps].kind # "dir"
             THEN Failed
             ELSE r

\* Option<PathBuf> / io::Result<PathBuf>
None == [some |-> FALSE]
Some(p) == [some |-> TRUE, path |-> p]

\* std::fs::canonicalize(..).ok()
Canonicalize(f, p) ==
    LET r == Lookup(f, p)
    IN  IF r.ok THEN Some(PathString(r.comps)) ELSE None

\* Path::is_dir
IsDir(f, p) ==
    LET r == Lookup(f, p)
    IN  r.ok /\ f[r.comps].kind = "dir"

\* Path::exists
Exists(f, p) == Lookup(f, p).ok

\* a file test that only asks whether the path exists
IsFile_Exists(f, p) == Lookup(f, p).ok

\* Path::is_file
IsFile(f, p) ==
    LET r == Lookup(f, p)
    IN  r.ok /\ f[r.comps].kind = "file"

(***************************************************************************)
(* StaticServer (src/src/static_server.rs).                                *)
(***************************************************************************)
\* no StaticServer has been built yet
NoServer == [built |-> FALSE]

\* StaticServer::from_config
from_config(cfg) ==
    [built       |-> TRUE,
     mount_path  |-> normalize_mount_path(cfg.mount_path),
     root_dir    |-> cfg.root_dir,
     serve_index |-> cfg.serve_index]

\* a relative path that loses one leading separator only
RelativePath_StripOne(s, request_path) ==
    LET rest == StripPrefixOrEmpty(request_path, s.mount_path)
    IN  IF rest # <<>> /\ Head(rest) = "/" THEN Tail(rest) ELSE rest

\* resolve: the request path without the mount prefix and leading slashes
RelativePath(s, request_path) ==
    TrimStartMatches(StripPrefixOrEmpty(request_path, s.mount_path), "/")

\* resolve: the relative path joined to the root directory
Candidate(s, request_path) == PathJoin(s.root_dir, RelativePath(s, request_path))

\* an index substitution that ignores serve_index
WithIndex_Always(s, f, full_path) ==
    IF IsDir(f, full_path) THEN PathJoin(full_path, IndexHtml) ELSE full_path

\* resolve: a directory is replaced by its index.html when serve_index is set
WithIndex(s, f, full_path) ==
    IF IsDir(f, full_path) /\ s.serve_index
    THEN PathJoin(full_path, IndexHtml)
    ELSE full_path

\* a final check without the containment test
Checked_NoContainment(f, canonical_full, canonical_root) ==
    IF Exists(f, canonical_full) /\ IsFile(f, canonical_full)
    THEN Some(canonical_full)
    ELSE None

\* a final check whose containment test lost its negation
Checked_InvertedContainment(f, canonical_full, canonical_root) ==
    IF PathStartsWith(canonical_full, canonical_root) THEN None
    ELSE IF Exists(f, canonical_full) /\ IsFile(f, canonical_full)
         THEN Some(canonical_full)
         ELSE None

\* resolve: containment under the canonical root, then the regular-file test
Checked(f, canonical_full, canonical_root) ==
    IF ~PathStartsWith(canonical_full, canonical_root) THEN None
    ELSE IF Exists(f, canonical_full) /\ IsFile(f, canonical_full)
         THEN Some(canonical_full)
         ELSE None

\* a resolve that forgets the mount test
resolve_NoMountTest(s, f, request_path) ==
    LET full_path == WithIndex(s, f, Candidate(s, request_path))
        canonical_full == Canonicalize(f, full_path)
        canonical_root == Canonicalize(f, s.root_dir)
    IN  IF ~canonical_full.some THEN None
        ELSE IF ~canonical_root.some THEN None
        ELSE Checked(f, canonical_full.path, canonical_root.path)

\* StaticServer::resolve
resolve(s, f, request_path) ==
    IF ~StrStartsWith(request_path, s.mount_path) THEN None
    ELSE LET full_path == WithIndex(s, f, Candidate(s, request_path))
             canonical_full == Canonicalize(f, full_path)
             canonical_root == Canonicalize(f, s.root_dir)
         IN  IF ~canonical_full.some THEN None
             ELSE IF ~canonical_root.some THEN None
             ELSE Checked(f, canonical_full.path, canonical_root.path)

\* std::fs::read: the whole content, or the I/O error
FsRead(f, p) ==
    LET r == Lookup(f, p)
    IN  IF ~r.ok THEN [ok |-> FALSE, err |-> "NotFound"]
        ELSE IF f[r.comps].kind = "dir" THEN [ok |-> FALSE, err |-> "IsADirectory"]
        ELSE IF ~f[r.comps].readable THEN [ok |-> FALSE, err |-> "PermissionDenied"]
        ELSE [ok |-> TRUE, bytes |-> f[r.comps].content]

RECURSIVE LastDot(_, _)
\* position of the last '.' of a name at or before i, 0 when there is none
LastDot(name, i) ==
    IF i = 0 THEN 0
    ELSE IF name[i] = "." THEN i
    ELSE LastDot(name, i - 1)

\* Path::extension: after the last '.', unless the name only starts with it
Extension(p) ==
    LET comps == Components(p)
        name == IF comps = <<>> THEN <<>> ELSE comps[Len(comps)]
        dot == LastDot(name, Len(name))
    IN  IF dot <= 1 THEN <<>> ELSE SubSeq(name, dot + 1, Len(name))

\* guess_mime_type: by extension, "application/octet-stream" otherwise
guess_mime_type(p) ==
    LET ext == Extension(p)
    IN  IF ext = <<"h", "t", "m", "l">> THEN "text/html"
        ELSE IF ext = <<"t", "x", "t">> THEN "text/plain"
        ELSE IF ext = <<"c", "s", "s">> THEN "text/css"
        ELSE IF ext = <<"j", "s">> THEN "text/javascript"
        ELSE "application/octet-stream"

\* Result<StaticFile, ServeError>
NotFound == [tag |-> "NotFound"]
Io(err) == [tag |-> "Io", err |-> err]
Ok(body, mime_type, path) ==
    [tag |-> "Ok", body |-> body, mime_type |-> mime_type, path |-> path]

\* a read that reports an unreadable file as not found
ReadResolved_HideIo(f, file_path) ==
    LET body == FsRead(f, file_path)
    IN  IF ~body.ok THEN NotFound
        ELSE Ok(body.bytes, guess_mime_type(file_path), file_path)

\* read_file after resolve: read the bytes, guess the type, build StaticFile
ReadResolved(f, file_path) ==
    LET body == FsRead(f, file_path)
    IN  IF ~body.ok THEN Io(body.err)
        ELSE Ok(body.bytes, guess_mime_type(file_path), file_path)

\* StaticServer::read_file
read_file(s, f, request_path) ==
    LET file_path == resolve(s, f, request_path)
    IN  IF ~file_path.some THEN NotFound
        ELSE ReadResolved(f, file_path.path)

(***************************************************************************)
(* The filesystems and inputs the model ranges over.  As in the tests, the *)
(* root directory holds files and sub-directories and has a sibling file   *)
(* outside it; symbolic links are added.                                   *)
(*                                                                         *)
(*   /o                 file "NOPE", outside every root                    *)
(*   /k                 symbolic link to the directory r                   *)
(*   /r                 directory                                          *)
(*   /r/f               file "OK"                                          *)
(*   /r/d               directory                                          *)
(*   /r/d/index.html    absent, or one of IndexNodes                       *)
(*   /r/l               absent, or one of LinkNodes                        *)
(***************************************************************************)
BytesOK == <<79, 75>>
BytesNOPE == <<78, 79, 80, 69>>
BytesIndex == <<60, 104, 49, 62>>

Absent == [kind |-> "absent"]

IndexNodes ==
    { File(BytesIndex, TRUE), File(BytesIndex, FALSE), Dir,
      Symlink(<<"/", "o">>), Symlink(<<".", ".", "/", "f">>) }

LinkNodes ==
    { Symlink(<<".", ".">>), Symlink(<<"l">>), Symlink(<<"x">>) }

\* g with location at bound to node, unless the node is absent
Place(g, at, node) == IF node = Absent THEN g ELSE (at :> node) @@ g

BaseFs ==
    (<<>> :> Dir) @@
    (<< <<"o">> >> :> File(BytesNOPE, TRUE)) @@
    (<< <<"k">> >> :> Symlink(<<"r">>)) @@
    (<< <<"r">> >> :> Dir) @@
    (<< <<"r">>, <<"f">> >> :> File(BytesOK, TRUE)) @@
    (<< <<"r">>, <<"d">> >> :> Dir)

MakeFs(index, link) ==
    Place(Place(BaseFs, << <<"r">>, <<"d">>, IndexHtml >>, index),
          << <<"r">>, <<"l">> >>, link)

FsFamily ==
    { MakeFs(index, link) : index \in IndexNodes \cup {Absent},
                            link \in LinkNodes \cup {Absent} }

\* root_dir values: the directory, a symbolic link to it, a sub-directory
RootDirs == { <<"/", "r">>, <<"/", "k">>, <<"/", "r", "/", "d">> }

\* mount_path values given to from_config in Spec
MountPaths == { <<"/">>, <<"a", "/">> }

\* every string over '/' and 'a' of at most n characters
StringsUpTo(n) == UNION { [1..k -> {"/", "a"}] : k \in 0..n }

Configs(mounts, roots) ==
    [mount_path : mounts, root_dir : roots, serve_index : BOOLEAN]

\* the names a request path is made of
SegNames == { <<".", ".">>, <<"f">>, <<"d">>, <<"l">>, <<"o">>, IndexHtml }

RECURSIVE JoinSegs(_)
\* the segments separated by single slashes
JoinSegs(segs) ==
    IF segs = <<>> THEN <<>>
    ELSE IF Len(segs) = 1 THEN segs[1]
    ELSE segs[1] \o <<"/">> \o JoinSegs(Tail(segs))

\* request paths: nothing or the mount path, up to two slashes, segments
RequestPaths(mount) ==
    { head \o sep \o JoinSegs(segs) :
        head \in { <<>>, mount },
        sep \in { <<>>, <<"/">>, <<"/", "/">> },
        segs \in UNION { [1..n -> SegNames] : n \in 0..MaxSegs } }

(***************************************************************************)
(* State.                                                                  *)
(***************************************************************************)
VARIABLES
    config,          \* the StaticServerConfig given to from_config
    server,          \* the StaticServer, NoServer before from_config
    fs,              \* the filesystem
    outcome,         \* Spec: the call made and what it returned
    pc,              \* SpecConcurrent: where each caller is in its call
    op,              \* SpecConcurrent: "resolve" or "read_file"
    req,             \* SpecConcurrent: request_path of the call
    full_path,       \* SpecConcurrent: local full_path of resolve
    canonical_full,  \* SpecConcurrent: local canonical_full of resolve
    canonical_root,  \* SpecConcurrent: local canonical_root of resolve
    ret              \* SpecConcurrent: the value the call returns

vars == << config, server, fs, outcome, pc, op, req, full_path,
           canonical_full, canonical_root, ret >>

callerVars == << pc, op, req, full_path, canonical_full, canonical_root, ret >>

Callers == 1..NumCallers

NoCall == [op |-> "none"]
NoRet == [tag |-> "none"]

CallersIdle ==
    /\ pc = [c \in Callers |-> "idle"]
    /\ op = [c \in Callers |-> "none"]
    /\ req = [c \in Callers |-> <<>>]
    /\ full_path = [c \in Callers |-> <<>>]
    /\ canonical_full = [c \in Callers |-> <<>>]
    /\ canonical_root = [c \in Callers |-> <<>>]
    /\ ret = [c \in Callers |-> NoRet]

InitWith(configs, filesystems) ==
    /\ config \in configs
    /\ fs \in filesystems
    /\ server = NoServer
    /\ outcome = NoCall
    /\ CallersIdle

\* StaticServer::from_config(config)
FromConfig ==
    /\ ~server.built
    /\ server' = from_config(config)
    /\ UNCHANGED << config, fs, outcome, callerVars >>

(***************************************************************************)
(* SpecNormalize: from_config over every mount_path string of at most      *)
(* MaxMountLen characters.                                                 *)
(***************************************************************************)
InitNormalize ==
    InitWith(Configs(StringsUpTo(MaxMountLen), { <<"/", "r">> }), { BaseFs })

NextNormalize == FromConfig

SpecNormalize == InitNormalize /\ [][NextNormalize]_vars

(***************************************************************************)
(* Spec: one server, one filesystem, one call of resolve or read_file.     *)
(* The server keeps nothing between calls, so a single call per behaviour  *)
(* reaches every outcome.                                                  *)
(***************************************************************************)
Init == InitWith(Configs(MountPaths, RootDirs), FsFamily)

\* server.resolve(request_path)
CallResolve(request_path) ==
    /\ server.built
    /\ outcome = NoCall
    /\ outcome' = [op |-> "resolve", request |-> request_path,
                   result |-> resolve(server, fs, request_path)]
    /\ UNCHANGED << config, server, fs, callerVars >>

\* server.read_file(request_path)
CallReadFile(request_path) ==
    /\ server.built
    /\ outcome = NoCall
    /\ outcome' = [op |-> "read_file", request |-> request_path,
                   result |-> read_file(server, fs, request_path)]
    /\ UNCHANGED << config, server, fs, callerVars >>

\* the request paths a caller may send to the server
Requests ==
    IF server.built /\ outcome = NoCall THEN RequestPaths(server.mount_path) ELSE {}

Next ==
    \/ FromConfig
    \/ \E request_path \in Requests : CallResolve(request_path)
    \/ \E request_path \in Requests : CallReadFile(request_path)

Spec == Init /\ [][Next]_vars

(***************************************************************************)
(* SpecConcurrent: NumCallers callers share one StaticServer (&self) and   *)
(* run resolve / read_file one filesystem probe at a time, interleaved in  *)
(* any order.  Each caller has its own locals.                             *)
(***************************************************************************)
ConcMountPaths == { <<"a", "/">> }
ConcRootDirs == { <<"/", "r">> }
ConcFs ==
    { MakeFs(File(BytesIndex, TRUE), Absent),
      MakeFs(File(BytesIndex, FALSE), Symlink(<<".", ".">>)) }
ConcRequests ==
    { <<"/", "a", "/", "f">>,
      <<"/", "a", "/", "d">>,
      <<"/", "a", "/", ".", ".", "/", "o">>,
      <<"/", "b">> }

InitConcurrent == InitWith(Configs(ConcMountPaths, ConcRootDirs), ConcFs)

\* a caller enters resolve or read_file with its request path
Call(c, o, request_path) ==
    /\ server.built
    /\ pc[c] = "idle"
    /\ pc' = [pc EXCEPT ![c] = "entered"]
    /\ op' = [op EXCEPT ![c] = o]
    /\ req' = [req EXCEPT ![c] = request_path]
    /\ UNCHANGED << config, server, fs, outcome, full_path, canonical_full,
                    canonical_root, ret >>

\* resolve has its Option<PathBuf>: it returns it, and read_file goes on to
\* read the file or fails with NotFound
Finish(c, found) ==
    IF op[c] = "resolve"
    THEN /\ ret' = [ret EXCEPT ![c] = found]
         /\ pc' = [pc EXCEPT ![c] = "done"]
    ELSE IF ~found.some
    THEN /\ ret' = [ret EXCEPT ![c] = NotFound]
         /\ pc' = [pc EXCEPT ![c] = "done"]
    ELSE /\ ret' = ret
         /\ pc' = [pc EXCEPT ![c] = "read"]

\* a caller whose full_path is kept in storage shared by all callers
StepMount_Shared(c) ==
    /\ pc[c] = "entered"
    /\ IF ~StrStartsWith(req[c], server.mount_path)
       THEN /\ Finish(c, None)
            /\ UNCHANGED full_path
       ELSE /\ full_path' = [d \in Callers |-> Candidate(server, req[c])]
            /\ pc' = [pc EXCEPT ![c] = "is_dir"]
            /\ ret' = ret
    /\ UNCHANGED << config, server, fs, outcome, op, req, canonical_full,
                    canonical_root >>

\* resolve: the mount test, the relative path, the join to root_dir
StepMount(c) ==
    /\ pc[c] = "entered"
    /\ IF ~StrStartsWith(req[c], server.mount_path)
       THEN /\ Finish(c, None)
            /\ UNCHANGED full_path
       ELSE /\ full_path' = [full_path EXCEPT ![c] = Candidate(server, req[c])]
            /\ pc' = [pc EXCEPT ![c] = "is_dir"]
            /\ ret' = ret
    /\ UNCHANGED << config, server, fs, outcome, op, req, canonical_full,
                    canonical_root >>

\* resolve: full_path.is_dir() && self.serve_index
StepIsDir(c) ==
    /\ pc[c] = "is_dir"
    /\ full_path' = [full_path EXCEPT ![c] = WithIndex(server, fs, full_path[c])]
    /\ pc' = [pc EXCEPT ![c] = "canon_full"]
    /\ UNCHANGED << config, server, fs, outcome, op, req, canonical_full,
                    canonical_root, ret >>

\* resolve: canonicalize(&full_path).ok()?
StepCanonFull(c) ==
    /\ pc[c] = "canon_full"
    /\ LET found == Canonicalize(fs, full_path[c])
       IN  IF ~found.some
           THEN /\ Finish(c, None)
                /\ UNCHANGED canonical_full
           ELSE /\ canonical_full' = [canonical_full EXCEPT ![c] = found.path]
                /\ pc' = [pc EXCEPT ![c] = "canon_root"]
                /\ ret' = ret
    /\ UNCHANGED << config, server, fs, outcome, op, req, full_path,
                    canonical_root >>

\* resolve: canonicalize(&self.root_dir).ok()?
StepCanonRoot(c) ==
    /\ pc[c] = "canon_root"
    /\ LET found == Canonicalize(fs, server.root_dir)
       IN  IF ~found.some
           THEN /\ Finish(c, None)
                /\ UNCHANGED canonical_root
           ELSE /\ canonical_root' = [canonical_root EXCEPT ![c] = found.path]
                /\ pc' = [pc EXCEPT ![c] = "check"]
                /\ ret' = ret
    /\ UNCHANGED << config, server, fs, outcome, op, req, full_path,
                    canonical_full >>

\* resolve: the containment test and the regular-file test
StepCheck(c) ==
    /\ pc[c] = "check"
    /\ Finish(c, Checked(fs, canonical_full[c], canonical_root[c]))
    /\ UNCHANGED << config, server, fs, outcome, op, req, full_path,
                    canonical_full, canonical_root >>

\* read_file: std::fs::read, guess_mime_type, the StaticFile
StepRead(c) ==
    /\ pc[c] = "read"
    /\ ret' = [ret EXCEPT ![c] = ReadResolved(fs, canonical_full[c])]
    /\ pc' = [pc EXCEPT ![c] = "done"]
    /\ UNCHANGED << config, server, fs, outcome, op, req, full_path,
                    canonical_full, canonical_root >>

\* the call returns; its locals are dropped
Return(c) ==
    /\ pc[c] = "done"
    /\ pc' = [pc EXCEPT ![c] = "idle"]
    /\ op' = [op EXCEPT ![c] = "none"]
    /\ req' = [req EXCEPT ![c] = <<>>]
    /\ full_path' = [full_path EXCEPT ![c] = <<>>]
    /\ canonical_full' = [canonical_full EXCEPT ![c] = <<>>]
    /\ canonical_root' = [canonical_root EXCEPT ![c] = <<>>]
    /\ ret' = [ret EXCEPT ![c] = NoRet]
    /\ UNCHANGED << config, server, fs, outcome >>

NextConcurrent ==
    \/ FromConfig
    \/ \E c \in Callers, o \in {"resolve", "read_file"}, request_path \in ConcRequests :
          Call(c, o, request_path)
    \/ \E c \in Callers : StepMount(c)
    \/ \E c \in Callers : StepIsDir(c)
    \/ \E c \in Callers : StepCanonFull(c)
    \/ \E c \in Callers : StepCanonRoot(c)
    \/ \E c \in Callers : StepCheck(c)
    \/ \E c \in Callers : StepRead(c)
    \/ \E c \in Callers : Return(c)

SpecConcurrent == InitConcurrent /\ [][NextConcurrent]_vars

(***************************************************************************)
(* Properties.                                                             *)
(***************************************************************************)
\* components pre are a prefix of components whole
IsPrefix(pre, whole) ==
    /\ Len(pre) <= Len(whole)
    /\ \A i \in 1..Len(pre) : whole[i] = pre[i]

\* the string s begins with the string m
BeginsWith(s, m) == \E k \in 0..Len(s) : SubSeq(s, 1, k) = m

\* what is left of the request path after the mount path
Remainder == SubSeq(outcome.request, Len(server.mount_path) + 1, Len(outcome.request))

\* a call was made with a request path under the mount
UnderMount(o) == outcome.op = o /\ BeginsWith(outcome.request, server.mount_path)

\* where the root directory really is
RootAt == Lookup(fs, server.root_dir)

\* where root_dir joined with the relative path really is
CandidateAt == Lookup(fs, Candidate(server, outcome.request))

\* C4: the stored mount path is exactly "/" or has no trailing slash and
\* exactly one leading slash, for every mount_path given to from_config.
C4_NormalizationInvariant ==
    server.built =>
        LET m == server.mount_path
        IN  \/ m = <<"/">>
            \/ /\ Len(m) >= 2
               /\ m[1] = "/"
               /\ m[2] # "/"
               /\ m[Len(m)] # "/"

\* C6: normalizing a normalized mount path changes nothing; "a", "/a",
\* "/a/" and "a/" all become "/a", and "/" stays "/".
C6_NormalizeIdempotent ==
    server.built =>
        /\ normalize_mount_path(server.mount_path) = server.mount_path
        /\ config.mount_path \in { <<"a">>, <<"/", "a">>, <<"/", "a", "/">>, <<"a", "/">> }
              => server.mount_path = <<"/", "a">>
        /\ config.mount_path = <<"/">> => server.mount_path = <<"/">>

\* C6 witness: a mount path with two trailing slashes has been normalized
C6_Witness ==
    /\ server.built
    /\ config.mount_path = <<"a", "/", "/">>
    /\ server.mount_path = <<"/", "a">>

\* C5: resolve returns absence for every request path that does not start
\* with the normalized mount path, whatever the filesystem holds.
C5_MountMembership ==
    (outcome.op = "resolve" /\ ~BeginsWith(outcome.request, server.mount_path))
        => outcome.result = None

\* C5 witness: a request outside the mount "/a" was refused although the
\* root directory holds an index file
C5_Witness ==
    /\ outcome.op = "resolve"
    /\ server.mount_path = <<"/", "a">>
    /\ server.serve_index
    /\ outcome.request = <<"/">>
    /\ IsFile(fs, PathJoin(server.root_dir, IndexHtml))
    /\ outcome.result = None

\* C1: a path returned by resolve is the canonical root or nested under it,
\* and is where the final path (after the index.html substitution) really
\* is; so a final path that leads outside the root resolves to absence.
C1_Containment ==
    UnderMount("resolve") =>
        LET final == Lookup(fs, WithIndex(server, fs, Candidate(server, outcome.request)))
        IN  /\ outcome.result.some =>
                 /\ RootAt.ok
                 /\ IsPrefix(RootAt.comps, Components(outcome.result.path))
                 /\ final.ok
                 /\ outcome.result.path = PathString(final.comps)
            /\ (final.ok /\ RootAt.ok /\ ~IsPrefix(RootAt.comps, final.comps))
                 => outcome.result = None

\* C1 witness: a request with a ".." segment names a file that exists
\* outside the root, and resolve returned absence
C1_Witness ==
    /\ UnderMount("resolve")
    /\ \E i \in 1..Len(outcome.request) - 1 :
          outcome.request[i] = "." /\ outcome.request[i + 1] = "."
    /\ CandidateAt.ok
    /\ fs[CandidateAt.comps].kind = "file"
    /\ RootAt.ok
    /\ ~IsPrefix(RootAt.comps, CandidateAt.comps)
    /\ outcome.result = None

\* the request maps to an existing directory inside the root
CandidateIsDirInRoot ==
    /\ CandidateAt.ok
    /\ fs[CandidateAt.comps].kind = "dir"
    /\ RootAt.ok
    /\ IsPrefix(RootAt.comps, CandidateAt.comps)

\* the location of index.html in the directory the request maps to
IndexAt == Append(CandidateAt.comps, IndexHtml)

\* C2: for a request that maps to a directory D inside the root: with
\* serve_index and a regular file D/index.html the result is that file; with
\* serve_index off it is absence; with serve_index and no D/index.html it is
\* absence.
C2_DirectoryPolicy ==
    (UnderMount("resolve") /\ CandidateIsDirInRoot) =>
        /\ (server.serve_index /\ IndexAt \in DOMAIN fs /\ fs[IndexAt].kind = "file")
              => outcome.result = Some(PathString(IndexAt))
        /\ ~server.serve_index => outcome.result = None
        /\ (server.serve_index /\ IndexAt \notin DOMAIN fs) => outcome.result = None

\* C2 witness: a directory request was answered with its index file
C2_Witness ==
    /\ UnderMount("resolve")
    /\ CandidateIsDirInRoot
    /\ server.serve_index
    /\ IndexAt \in DOMAIN fs
    /\ fs[IndexAt].kind = "file"
    /\ outcome.result = Some(PathString(IndexAt))

\* why a request path cannot be served, "none" when it can: judged from
\* the filesystem, in the order of the causes the error design lists
RejectionCause ==
    IF ~BeginsWith(outcome.request, server.mount_path) THEN "outside_mount"
    ELSE IF ~CandidateAt.ok THEN "missing_or_dangling"
    ELSE IF fs[CandidateAt.comps].kind = "dir" /\ ~server.serve_index
         THEN "directory_index_disabled"
    ELSE LET final == IF fs[CandidateAt.comps].kind = "dir"
                      THEN Lookup(fs, PathString(IndexAt))
                      ELSE CandidateAt
         IN  IF ~final.ok THEN "directory_without_index"
             ELSE IF ~RootAt.ok \/ ~IsPrefix(RootAt.comps, final.comps)
                  THEN "outside_root"
             ELSE IF fs[final.comps].kind # "file" THEN "not_a_regular_file"
             ELSE "none"

\* C3: read_file fails with NotFound exactly when resolve returns absence,
\* that is for every rejection cause, and with one and the same value that
\* carries nothing about the cause; it fails with Io only when resolve
\* returned a path and the bytes of that file could not be read.
C3_ErrorOutcomes ==
    outcome.op = "read_file" =>
        LET found == resolve(server, fs, outcome.request)
        IN  /\ outcome.result.tag \in {"Ok", "NotFound", "Io"}
            /\ (outcome.result.tag = "NotFound") <=> ~found.some
            /\ (outcome.result.tag = "NotFound") <=> (RejectionCause # "none")
            /\ (outcome.result.tag = "NotFound") => outcome.result = [tag |-> "NotFound"]
            /\ (outcome.result.tag = "Io") =>
                  /\ found.some
                  /\ Components(found.path) \in DOMAIN fs
                  /\ fs[Components(found.path)].kind = "file"
                  /\ ~fs[Components(found.path)].readable

\* C3 witness: a dangling symbolic link under the root was requested and
\* read_file answered NotFound
C3_Witness ==
    /\ UnderMount("read_file")
    /\ RejectionCause = "missing_or_dangling"
    /\ Append(RootAt.comps, <<"l">>) \in DOMAIN fs
    /\ fs[Append(RootAt.comps, <<"l">>)] = Symlink(<<"x">>)
    /\ Remainder = <<"/", "l">>
    /\ outcome.result = [tag |-> "NotFound"]

\* the request maps to a regular file under the root
CandidateIsFileInRoot ==
    /\ CandidateAt.ok
    /\ fs[CandidateAt.comps].kind = "file"
    /\ RootAt.ok
    /\ IsPrefix(RootAt.comps, CandidateAt.comps)

\* read_file returned the bytes of the file the request maps to, and the
\* path resolve returns for the request
ServedCandidate ==
    /\ outcome.result.tag = "Ok"
    /\ outcome.result.body = fs[CandidateAt.comps].content
    /\ resolve(server, fs, outcome.request) = Some(outcome.result.path)
    /\ outcome.result.path = PathString(CandidateAt.comps)

\* C7 as stated: whenever a file exists under the root, read_file on its
\* request path returns Ok with the file's bytes and the path of resolve.
C7_RoundTripAsStated ==
    (UnderMount("read_file") /\ CandidateIsFileInRoot) => ServedCandidate

\* C7: whenever a file exists under the root and its bytes can be read,
\* read_file on its request path returns Ok with a body identical to the
\* file's content and the path resolve returns for the same request.
C7_RoundTrip ==
    (UnderMount("read_file") /\ CandidateIsFileInRoot
        /\ fs[CandidateAt.comps].readable) => ServedCandidate

\* C7 witness: the file f of the root was read back
C7_Witness ==
    /\ UnderMount("read_file")
    /\ CandidateIsFileInRoot
    /\ outcome.result.tag = "Ok"
    /\ outcome.result.body = BytesOK
    /\ outcome.result.mime_type = "application/octet-stream"

\* the string is made of slashes only
OnlySlashes(s) == \A i \in 1..Len(s) : s[i] = "/"

\* C9 as stated: exactly one leading '/' is stripped from the remainder, so
\* after two or more slashes the relative path still begins with '/'.
C9_SingleSlashAsStated ==
    UnderMount("resolve") =>
        RelativePath(server, outcome.request) =
            (IF Remainder # <<>> /\ Head(Remainder) = "/" THEN Tail(Remainder) ELSE Remainder)

\* C9: every leading '/' is stripped from the remainder: the relative path
\* is the remainder without its leading slashes, never begins with '/', is
\* empty for an empty remainder, and is joined under root_dir.
C9_RelativePath ==
    UnderMount("resolve") =>
        LET rel == RelativePath(server, outcome.request)
        IN  /\ \E k \in 0..Len(Remainder) :
                  /\ OnlySlashes(SubSeq(Remainder, 1, k))
                  /\ rel = SubSeq(Remainder, k + 1, Len(Remainder))
            /\ rel = <<>> \/ Head(rel) # "/"
            /\ Remainder = <<>> => rel = <<>>
            /\ BeginsWith(Candidate(server, outcome.request), server.root_dir)
            /\ (Len(Remainder) >= 2 /\ Remainder[1] = "/" /\ Remainder[2] = "/")
                  => outcome.result =
                        resolve(server, fs, server.mount_path \o Tail(Remainder))

\* C9 witness: a request with two slashes after the mount path resolved to
\* a file under the root
C9_Witness ==
    /\ UnderMount("resolve")
    /\ Len(Remainder) >= 3
    /\ Remainder[1] = "/"
    /\ Remainder[2] = "/"
    /\ outcome.result.some

\* C10: a path returned by resolve exists and is a regular file, never a
\* directory; when serve_index is set and index.html of the requested
\* directory is itself a directory, resolve returns absence.
C10_RegularFile ==
    UnderMount("resolve") =>
        /\ outcome.result.some =>
              /\ Components(outcome.result.path) \in DOMAIN fs
              /\ fs[Components(outcome.result.path)].kind = "file"
        /\ (server.serve_index /\ CandidateAt.ok /\ fs[CandidateAt.comps].kind = "dir"
              /\ IndexAt \in DOMAIN fs /\ fs[IndexAt].kind = "dir")
              => outcome.result = None

\* C10 witness: index.html of the requested directory is a directory and
\* resolve returned absence
C10_Witness ==
    /\ UnderMount("resolve")
    /\ server.serve_index
    /\ CandidateIsDirInRoot
    /\ IndexAt \in DOMAIN fs
    /\ fs[IndexAt].kind = "dir"
    /\ outcome.result = None

\* what the call of caller c returns when it runs alone
Alone(c) ==
    IF op[c] = "resolve"
    THEN resolve(server, fs, req[c])
    ELSE read_file(server, fs, req[c])

\* C8: resolve and read_file change neither the server nor the filesystem,
\* and under every interleaving each call returns what it returns alone.
C8_ConcurrentIndependence ==
    /\ [](\A c \in Callers : pc[c] = "done" => ret[c] = Alone(c))
    /\ [][server.built => (server' = server /\ fs' = fs /\ config' = config)]_vars

\* C8 witness: one caller has its result while another is in the middle of
\* a call with a different request
C8_Witness ==
    \E c, d \in Callers :
        /\ pc[c] = "done"
        /\ ret[c] = Alone(c)
        /\ pc[d] \in {"is_dir", "canon_full", "canon_root", "check", "read"}
        /\ req[c] # req[d]

=============================================================================
